---- MODULE Spec2Model ----
\* A model of parse_stp_history.py: the history walk of calculate_stats, which
\* keeps the owners / created_on maps, the set of all contributors and the
\* last date of the distinguished contributor, and the final classification.
EXTENDS Integers, Sequences, FiniteSets, TLC

\* ---------------------------------------------------------------- bounds

\* Author timestamps are drawn from 1..MaxTime (epoch seconds).
MaxTime == 2

\* ---------------------------------------------------------------- strings
\* Python strings are modelled as tuples of one-character strings, so that
\* str.lower(), str.title() and the `in` substring test are computed.

UpperCase == <<"A","B","C","D","E","F","G","H","I","J","K","L","M",
               "N","O","P","Q","R","S","T","U","V","W","X","Y","Z">>

LowerCase == <<"a","b","c","d","e","f","g","h","i","j","k","l","m",
               "n","o","p","q","r","s","t","u","v","w","x","y","z">>

Chars == {UpperCase[i] : i \in 1..26} \cup {LowerCase[i] : i \in 1..26} \cup {" ", "."}

\* The case tables of the characters, computed once.
LowerOf ==
  [c \in Chars |->
     IF \E i \in 1..26 : UpperCase[i] = c
     THEN LowerCase[CHOOSE i \in 1..26 : UpperCase[i] = c] ELSE c]

UpperOf ==
  [c \in Chars |->
     IF \E i \in 1..26 : LowerCase[i] = c
     THEN UpperCase[CHOOSE i \in 1..26 : LowerCase[i] = c] ELSE c]

IsCased(c) == LowerOf[c] # UpperOf[c]

ToLower(c) == LowerOf[c]

ToUpper(c) == UpperOf[c]

\* str.lower()
str_lower(s) == [i \in 1..Len(s) |-> ToLower(s[i])]

\* str.title(): a cased character that follows a cased character is lowered,
\* any other cased character is raised; uncased characters are kept.
str_title(s) ==
  [i \in 1..Len(s) |->
     IF i > 1 /\ IsCased(s[i-1]) THEN ToLower(s[i]) ELSE ToUpper(s[i])]

\* needle in hay
str_contains(needle, hay) ==
  \E k \in 0..(Len(hay) - Len(needle)) :
     \A j \in 1..Len(needle) : hay[k + j] = needle[j]

VIJAY_NAME == <<"V","i","j","a","y"," ","G","a","n","e","s","h">>

DAVID_NAME == <<"D","a","v","i","d"," ","L","."," ","D","i","l","l">>

GANESH == <<"G","a","n","e","s","h">>

transform_name(name) ==
  IF str_contains(str_lower(GANESH), str_lower(name))
  THEN {VIJAY_NAME, DAVID_NAME}
  ELSE {str_title(name)}

\* ---------------------------------------------------------------- inputs
\* What the history provider (pygit2) can hand to the walk.

AuthorNames ==
  { <<"a","l","i","c","e">>,
    <<"V","I","J","A","Y"," ","g","a","n","e","s","h">>,
    <<"d","a","v","i","d"," ","l","."," ","d","i","l","l">> }

\* transform_name on every name the walk hands to it, computed once.
Identity == [n \in AuthorNames \cup {VIJAY_NAME} |-> transform_name(n)]

Paths == {"a", "b"}

Times == 1..MaxTime

Statuses == {"ADDED", "MODIFIED", "RENAMED", "DELETED", "COPIED", "TYPECHANGE"}

get_git_type(action) ==
  CASE action = "ADDED"      -> "GIT_DELTA_ADDED"
    [] action = "COPIED"     -> "GIT_DELTA_COPIED"
    [] action = "DELETED"    -> "GIT_DELTA_DELETED"
    [] action = "MODIFIED"   -> "GIT_DELTA_MODIFIED"
    [] action = "RENAMED"    -> "GIT_DELTA_RENAMED"
    [] action = "TYPECHANGE" -> "GIT_DELTA_TYPECHANGE"

\* ---------------------------------------------------------------- state

VARIABLES
  owners,            \* dict: path -> set of contributor names
  created_on,        \* dict: path -> commit time
  key_order,         \* insertion order of the keys of owners (dict order)
  alias,             \* the sets of paths whose owners entry is one set object
  all_contributors,  \* set of contributor names
  last_vijay_date,   \* PyNone or a commit time
  first,             \* processing the first commit?
  commit,            \* loop variable of the walk
  delta,             \* loop variable of the delta loop
  pc,                \* "walk", "deltas", "report", "done", "failed"
  err,               \* the exception that ended the run, if any
  output,            \* the lines printed
  history            \* history variable: who Added or Modified each live path

vars == <<owners, created_on, key_order, alias, all_contributors,
          last_vijay_date, first, commit, delta, pc, err, output, history>>

PyNone == 0

EmptyDict == [p \in {} |-> {}]

NoCommit == [author |-> <<>>, time |-> 0]

NoDelta == [status |-> "NONE", old |-> "", new |-> ""]

NoError == [type |-> "", line |-> 0, msg |-> <<>>]

\* The part of the state a delta can change, as one record.
Engine ==
  [owners |-> owners, created_on |-> created_on, key_order |-> key_order,
   alias |-> alias,
   all_contributors |-> all_contributors, last_vijay_date |-> last_vijay_date,
   err |-> NoError]

Raise(st, type, line, msg) ==
  [st EXCEPT !.err = [type |-> type, line |-> line, msg |-> msg]]

\* ---------------------------------------------------------------- dicts

\* d[k] = v
DictSet(d, k, v) == [q \in (DOMAIN d) \cup {k} |-> IF q = k THEN v ELSE d[q]]

\* del d[k]
DictDel(d, k) == [q \in (DOMAIN d) \ {k} |-> d[q]]

InOrder(order, k) == \E i \in 1..Len(order) : order[i] = k

OrderSet(order, k) == IF InOrder(order, k) THEN order ELSE Append(order, k)

OrderDel(order, k) == SelectSeq(order, LAMBDA q : q # k)

\* ---------------------------------------------------------------- set objects
\* The values of owners are mutable sets, and line 154 updates one in place,
\* so it matters which keys hold the same object. alias is the partition of
\* the keys of owners into the keys that hold one object.

\* The keys that hold the object of key k
BlockOf(al, k) == CHOOSE b \in al : k \in b

\* del d[k], or the first half of rebinding k
Unbind(al, k) == {b \ {k} : b \in al} \ {{}}

\* d[k] = <a set object that no other key holds>
BindFresh(al, k) == Unbind(al, k) \cup {{k}}

\* d[k] = d[q]: k holds the object of q
BindSame(al, k, q) ==
  IF k = q THEN al
  ELSE LET al1 == Unbind(al, k)
           b   == BlockOf(al1, q)
       IN  (al1 \ {b}) \cup {b \cup {k}}

\* d[k] |= v: the object of k is updated in place, for every key that holds it
DictUnionInPlace(d, al, k, v) ==
  LET b == BlockOf(al, k)
  IN  [q \in DOMAIN d |-> IF q \in b THEN d[q] \cup v ELSE d[q]]

\* ---------------------------------------------------------------- the walk
\* One delta of the loop at lines 108-186, as a function of the engine state.

\* Mutant of Contributor: the first commit is attributed to its recorded author.
ContributorAlwaysAuthor(is_first, c) == Identity[c.author]

\* lines 120-130: the contributor of the change
Contributor(is_first, c) ==
  IF is_first THEN Identity[VIJAY_NAME] ELSE Identity[c.author]

\* lines 133-134: aware datetimes compare by instant, so the instant stands
\* for the datetime.
CommitTime(c) == c.time

\* lines 137-138
StoreVijayDate(st, contributor, commit_time) ==
  IF VIJAY_NAME \in contributor
  THEN [st EXCEPT !.last_vijay_date = commit_time]
  ELSE st

\* Mutant of RecordContributor: the contributor replaces the set.
RecordContributorReplaces(st, contributor) ==
  [st EXCEPT !.all_contributors = contributor]

\* Mutant of RecordContributor: a contributor matching the marker is not recorded.
RecordContributorSkipsVijay(st, contributor) ==
  IF VIJAY_NAME \in contributor
  THEN st
  ELSE [st EXCEPT !.all_contributors = @ \cup contributor]

\* line 159
RecordContributor(st, contributor) ==
  [st EXCEPT !.all_contributors = @ \cup contributor]

\* Mutant of AddedBranch: the existence check is missing, the entry is overwritten.
AddedBranchNoAssert(st, path, contributor, commit_time) ==
  RecordContributor(
    [st EXCEPT !.owners = DictSet(@, path, contributor),
               !.alias = BindFresh(@, path),
               !.key_order = OrderSet(@, path),
               !.created_on = DictSet(@, path, commit_time)],
    contributor)

\* Mutant of AddedBranch: an Added is accepted only while no path is live.
AddedBranchExpectsEmpty(st, path, contributor, commit_time) ==
  IF DOMAIN st.owners # {}
  THEN Raise(st, "AssertionError", 142, <<>>)
  ELSE RecordContributor(
         [st EXCEPT !.owners = DictSet(@, path, contributor),
                    !.alias = BindFresh(@, path),
                    !.key_order = OrderSet(@, path),
                    !.created_on = DictSet(@, path, commit_time)],
         contributor)

\* Mutant of AddedBranch: equal contributor sets are one object, as if
\* transform_name returned a cached set.
AddedBranchCachedSet(st, path, contributor, commit_time) ==
  IF path \in DOMAIN st.owners
  THEN Raise(st, "AssertionError", 142, <<>>)
  ELSE LET same == {q \in DOMAIN st.owners : st.owners[q] = contributor}
       IN  RecordContributor(
             [st EXCEPT !.owners = DictSet(@, path, contributor),
                        !.alias = IF same = {} THEN BindFresh(@, path)
                                  ELSE BindSame(@, path, CHOOSE q \in same : TRUE),
                        !.key_order = OrderSet(@, path),
                        !.created_on = DictSet(@, path, commit_time)],
             contributor)

\* lines 140-148
AddedBranch(st, path, contributor, commit_time) ==
  IF path \in DOMAIN st.owners
  THEN Raise(st, "AssertionError", 142, <<>>)
  ELSE RecordContributor(
         [st EXCEPT !.owners = DictSet(@, path, contributor),
                    !.alias = BindFresh(@, path),
                    !.key_order = OrderSet(@, path),
                    !.created_on = DictSet(@, path, commit_time)],
         contributor)

\* Mutant of ModifiedBranch: the contributor replaces the owners of the path.
ModifiedBranchOverwrites(st, path, contributor) ==
  IF path \notin DOMAIN st.owners
  THEN Raise(st, "AssertionError", 151, <<>>)
  ELSE RecordContributor(
         [st EXCEPT !.owners = DictSet(@, path, contributor),
                    !.alias = BindFresh(@, path)],
         contributor)

\* lines 149-156
ModifiedBranch(st, path, contributor) ==
  IF path \notin DOMAIN st.owners
  THEN Raise(st, "AssertionError", 151, <<>>)
  ELSE RecordContributor(
         [st EXCEPT !.owners = DictUnionInPlace(@, st.alias, path, contributor)],
         contributor)

\* Mutant of AddOrModify: a Modified stores the commit time as the creation time.
AddOrModifyRestamps(st, is_first, c, d) ==
  IF d.old # d.new
  THEN Raise(st, "AssertionError", 117, <<>>)
  ELSE IF is_first /\ d.status # "ADDED"
  THEN Raise(st, "AssertionError", 123, <<>>)
  ELSE LET contributor == Contributor(is_first, c)
           commit_time == CommitTime(c)
           st1         == StoreVijayDate(st, contributor, commit_time)
       IN  IF d.status = "ADDED"
           THEN AddedBranch(st1, d.new, contributor, commit_time)
           ELSE LET st2 == ModifiedBranch(st1, d.new, contributor)
                IN  IF st2.err # NoError THEN st2
                    ELSE [st2 EXCEPT !.created_on = DictSet(@, d.new, commit_time)]

\* lines 110-159
AddOrModify(st, is_first, c, d) ==
  IF d.old # d.new
  THEN Raise(st, "AssertionError", 117, <<>>)
  ELSE IF is_first /\ d.status # "ADDED"
  THEN Raise(st, "AssertionError", 123, <<>>)
  ELSE LET contributor == Contributor(is_first, c)
           commit_time == CommitTime(c)
           st1         == StoreVijayDate(st, contributor, commit_time)
       IN  IF d.status = "ADDED"
           THEN AddedBranch(st1, d.new, contributor, commit_time)
           ELSE ModifiedBranch(st1, d.new, contributor)

\* Mutant of DeletedBranch: the creation time of the deleted path is kept.
DeletedBranchKeepsTime(st, old) ==
  IF old \notin DOMAIN st.owners
  THEN Raise(st, "KeyError", 177, <<old>>)
  ELSE [st EXCEPT !.owners = DictDel(@, old),
                  !.alias = Unbind(@, old),
                  !.key_order = OrderDel(@, old)]

\* lines 176-180
DeletedBranch(st, old) ==
  IF old \notin DOMAIN st.owners
  THEN Raise(st, "KeyError", 177, <<old>>)
  ELSE IF old \notin DOMAIN st.created_on
  THEN Raise([st EXCEPT !.owners = DictDel(@, old),
                        !.alias = Unbind(@, old),
                        !.key_order = OrderDel(@, old)],
             "KeyError", 180, <<old>>)
  ELSE [st EXCEPT !.owners = DictDel(@, old),
                  !.alias = Unbind(@, old),
                  !.key_order = OrderDel(@, old),
                  !.created_on = DictDel(@, old)]

\* Mutant of RenamedBranch: the ownership is copied before the destination is
\* checked.
RenamedBranchCopiesFirst(st, old, new) ==
  IF old \notin DOMAIN st.owners
  THEN Raise(st, "KeyError", 171, <<old>>)
  ELSE IF new \in DOMAIN st.owners
  THEN Raise([st EXCEPT !.owners = DictSet(@, new, @[old]),
                        !.alias = BindSame(@, new, old)],
             "AssertionError", 168, <<>>)
  ELSE [st EXCEPT !.owners = DictSet(@, new, @[old]),
                  !.alias = BindSame(@, new, old),
                  !.key_order = OrderSet(@, new),
                  !.created_on = DictSet(@, new, @[old])]

\* lines 164-174
RenamedBranch(st, old, new) ==
  IF new \in DOMAIN st.owners
  THEN Raise(st, "AssertionError", 168, <<>>)
  ELSE IF old \notin DOMAIN st.owners
  THEN Raise(st, "KeyError", 171, <<old>>)
  ELSE IF old \notin DOMAIN st.created_on
  THEN Raise([st EXCEPT !.owners = DictSet(@, new, @[old]),
                        !.alias = BindSame(@, new, old),
                        !.key_order = OrderSet(@, new)],
             "KeyError", 174, <<old>>)
  ELSE [st EXCEPT !.owners = DictSet(@, new, @[old]),
                  !.alias = BindSame(@, new, old),
                  !.key_order = OrderSet(@, new),
                  !.created_on = DictSet(@, new, @[old])]

\* Mutant of RenameOrDelete: a rename does not fall through to the deletion.
RenameOrDeleteKeepsOld(st, d) ==
  IF d.status = "RENAMED"
  THEN RenamedBranch(st, d.old, d.new)
  ELSE DeletedBranch(st, d.old)

\* lines 161-180
RenameOrDelete(st, d) ==
  IF d.status = "RENAMED"
  THEN LET st1 == RenamedBranch(st, d.old, d.new)
       IN  IF st1.err # NoError THEN st1 ELSE DeletedBranch(st1, d.old)
  ELSE DeletedBranch(st, d.old)

\* Mutant of ProcessDelta: a rename or a delete counts as a contribution.
ProcessDeltaRenameContributes(st, is_first, c, d) ==
  IF is_first \/ d.status \in {"ADDED", "MODIFIED"}
  THEN AddOrModify(st, is_first, c, d)
  ELSE IF d.status \in {"RENAMED", "DELETED"}
  THEN LET contributor == Contributor(is_first, c)
           st1 == RenameOrDelete(st, d)
       IN  IF st1.err # NoError THEN st1
           ELSE RecordContributor(
                  StoreVijayDate(st1, contributor, CommitTime(c)), contributor)
  ELSE Raise(st, "RuntimeError", 184,
             <<"You haven't handled: ", get_git_type(d.status)>>)

\* lines 110-186
ProcessDelta(st, is_first, c, d) ==
  IF is_first \/ d.status \in {"ADDED", "MODIFIED"}
  THEN AddOrModify(st, is_first, c, d)
  ELSE IF d.status \in {"RENAMED", "DELETED"}
  THEN RenameOrDelete(st, d)
  ELSE Raise(st, "RuntimeError", 184,
             <<"You haven't handled: ", get_git_type(d.status)>>)

\* ---------------------------------------------------------------- report

\* Mutant of Classify: Inherited is tried before Partial.
ClassifyInheritedFirst(file_owners, added_date, last_date) ==
  LET vijay_set        == Identity[VIJAY_NAME]
      before_last_date == added_date < last_date
  IN  IF file_owners = vijay_set THEN "Complete"
      ELSE IF before_last_date THEN "Inherited"
      ELSE IF vijay_set \cap file_owners # {} THEN "Partial"
      ELSE "None"

\* Mutant of Classify: the date test is the other way round.
ClassifyDateReversed(file_owners, added_date, last_date) ==
  LET vijay_set        == Identity[VIJAY_NAME]
      before_last_date == last_date < added_date
  IN  IF file_owners = vijay_set THEN "Complete"
      ELSE IF vijay_set \cap file_owners # {} THEN "Partial"
      ELSE IF before_last_date THEN "Inherited"
      ELSE "None"

\* lines 203-223
Classify(file_owners, added_date, last_date) ==
  LET vijay_set        == Identity[VIJAY_NAME]
      before_last_date == added_date < last_date
  IN  IF file_owners = vijay_set THEN "Complete"
      ELSE IF vijay_set \cap file_owners # {} THEN "Partial"
      ELSE IF before_last_date THEN "Inherited"
      ELSE "None"

\* ---------------------------------------------------------------- history
\* The history variable records, for each live path, the kinds of commit that
\* Added or Modified it (under its current or an earlier name). It is read by
\* no action: it only lets a property speak of the past of a path.

\* "distinguished": the first commit, or an author matching the marker;
\* "coattributed": an author whose own name is the second name of the pair.
CommitKind ==
  [n \in AuthorNames |->
     IF str_contains(str_lower(GANESH), str_lower(n)) THEN "distinguished"
     ELSE IF str_title(n) = DAVID_NAME THEN "coattributed"
     ELSE "other"]

HistoryAfter(h, is_first, c, d) ==
  LET kind == IF is_first THEN "distinguished" ELSE CommitKind[c.author]
  IN  CASE d.status = "ADDED"    -> DictSet(h, d.new, {kind})
        [] d.status = "MODIFIED" -> DictSet(h, d.new, h[d.new] \cup {kind})
        [] d.status = "RENAMED"  -> DictDel(DictSet(h, d.new, h[d.old]), d.old)
        [] d.status = "DELETED"  -> DictDel(h, d.old)

\* ---------------------------------------------------------------- actions

Init ==
  /\ owners = EmptyDict
  /\ created_on = EmptyDict
  /\ key_order = <<>>
  /\ alias = {}
  /\ all_contributors = {}
  /\ last_vijay_date = PyNone
  /\ first = TRUE
  /\ commit = NoCommit
  /\ delta = NoDelta
  /\ pc = "walk"
  /\ err = NoError
  /\ output = <<>>
  /\ history = EmptyDict

\* line 96-105: the walk yields the next commit and its diff is taken
NextCommit ==
  /\ pc = "walk"
  /\ \E a \in AuthorNames, t \in Times : commit' = [author |-> a, time |-> t]
  /\ pc' = "deltas"
  /\ UNCHANGED <<owners, created_on, key_order, alias, all_contributors,
                 last_vijay_date, first, delta, err, output, history>>

\* lines 108-186: the loop body for the delta d
Deliver(d) ==
  /\ delta' = d
  /\ LET st == ProcessDelta(Engine, first, commit, d)
     IN  /\ owners' = st.owners
         /\ created_on' = st.created_on
         /\ key_order' = st.key_order
         /\ alias' = st.alias
         /\ all_contributors' = st.all_contributors
         /\ last_vijay_date' = st.last_vijay_date
         /\ err' = st.err
         /\ pc' = IF st.err = NoError THEN "deltas" ELSE "failed"
         /\ history' = IF st.err = NoError
                        THEN HistoryAfter(history, first, commit, d)
                        ELSE history
  /\ UNCHANGED <<first, commit, output>>

\* The deltas pygit2 reports: a rename or a copy has two different paths, every
\* other delta carries the same path as old_file.path and as new_file.path.
DeltasOf(status) ==
  { d \in [status : {status}, old : Paths, new : Paths] :
      (d.old # d.new) <=> (status \in {"RENAMED", "COPIED"}) }

Added ==
  /\ pc = "deltas"
  /\ \E d \in DeltasOf("ADDED") : Deliver(d)

Modified ==
  /\ pc = "deltas"
  /\ \E d \in DeltasOf("MODIFIED") : Deliver(d)

Renamed ==
  /\ pc = "deltas"
  /\ \E d \in DeltasOf("RENAMED") : Deliver(d)

Deleted ==
  /\ pc = "deltas"
  /\ \E d \in DeltasOf("DELETED") : Deliver(d)

Unhandled ==
  /\ pc = "deltas"
  /\ \E s \in Statuses \ {"ADDED", "MODIFIED", "RENAMED", "DELETED"} :
       \E d \in DeltasOf(s) : Deliver(d)

\* lines 188-189: the deltas of the commit are exhausted
EndCommit ==
  /\ pc = "deltas"
  /\ first' = FALSE
  /\ pc' = "walk"
  /\ UNCHANGED <<owners, created_on, key_order, alias, all_contributors,
                 last_vijay_date, commit, delta, err, output, history>>

\* Mutant of EndWalk: the report starts without looking at last_vijay_date.
EndWalkNoDate ==
  /\ pc = "walk"
  /\ commit # NoCommit
  /\ output' = Append(output, [vijay |-> VIJAY_NAME, date |-> last_vijay_date])
  /\ pc' = IF key_order = <<>> THEN "done" ELSE "report"
  /\ err' = err
  /\ UNCHANGED <<owners, created_on, key_order, alias, all_contributors,
                 last_vijay_date, first, commit, delta, history>>

\* lines 191-195: the walk is exhausted (a repository has at least one commit)
EndWalk ==
  /\ pc = "walk"
  /\ commit # NoCommit
  /\ IF last_vijay_date = PyNone
     THEN /\ err' = [type |-> "AttributeError", line |-> 193, msg |-> <<>>]
          /\ pc' = "failed"
          /\ output' = output
     ELSE /\ output' = Append(output, [vijay |-> VIJAY_NAME, date |-> last_vijay_date])
          /\ pc' = IF key_order = <<>> THEN "done" ELSE "report"
          /\ err' = err
  /\ UNCHANGED <<owners, created_on, key_order, alias, all_contributors,
                 last_vijay_date, first, commit, delta, history>>

\* lines 198-230: one file of the report; os.path.exists is the environment's
ReportFile ==
  /\ pc = "report"
  /\ LET fname == key_order[Len(output)]
     IN \E exists \in BOOLEAN :
          IF ~exists
          THEN /\ err' = [type |-> "AssertionError", line |-> 201, msg |-> <<>>]
               /\ pc' = "failed"
               /\ output' = output
          ELSE /\ output' = Append(output,
                    [ownership |-> Classify(owners[fname], created_on[fname], last_vijay_date),
                     name |-> fname, date |-> created_on[fname]])
               /\ pc' = IF Len(output) = Len(key_order) THEN "done" ELSE "report"
               /\ err' = err
  /\ UNCHANGED <<owners, created_on, key_order, alias, all_contributors,
                 last_vijay_date, first, commit, delta, history>>

Next ==
  \/ NextCommit
  \/ Added
  \/ Modified
  \/ Renamed
  \/ Deleted
  \/ Unhandled
  \/ EndCommit
  \/ EndWalk
  \/ ReportFile

Spec == Init /\ [][Next]_vars

\* ---------------------------------------------------------------- claims

\* A step that processed one change record (the record is delta').
DeltaStep == pc = "deltas" /\ pc' \in {"deltas", "failed"}

\* A step that processed one change record without raising.
DeltaDone == DeltaStep /\ err' = NoError

Range(seq) == {seq[i] : i \in 1..Len(seq)}

\* C1: after every change record the owners map and the created_on map have
\* the same keys, and a path has at most one entry (the key order of the dict
\* lists each live path exactly once).
C1_LockStep ==
  /\ DOMAIN owners = DOMAIN created_on
  /\ Range(key_order) = DOMAIN owners
  /\ Len(key_order) = Cardinality(DOMAIN owners)

\* C1 witness: a Deleted has been processed and another path is still live.
C1_Witness ==
  /\ pc = "deltas" /\ ~first
  /\ delta.status = "DELETED"
  /\ DOMAIN owners # {}
  /\ delta.old \notin DOMAIN owners

\* The path-existence preconditions of a change record d, before it is processed.
Violates(d) ==
  \/ first /\ d.status # "ADDED"
  \/ d.status = "ADDED" /\ d.new \in DOMAIN owners
  \/ d.status = "MODIFIED" /\ d.new \notin DOMAIN owners
  \/ d.status = "RENAMED" /\ d.new \in DOMAIN owners
  \/ d.status = "RENAMED" /\ d.old \notin DOMAIN owners
  \/ d.status = "DELETED" /\ d.old \notin DOMAIN owners

\* C2: a change record that violates a path-existence precondition (or is not
\* an Added in the first commit) ends the run with an exception: nothing is
\* processed after it and nothing is printed.
C2_AbortOnViolation ==
  [][ /\ pc # "failed"
      /\ (DeltaStep /\ Violates(delta'))
           => (pc' = "failed" /\ err' # NoError /\ output' = <<>>) ]_vars

\* C2 witness: a Renamed whose old path is not live has ended the run.
C2_Witness ==
  /\ pc = "failed"
  /\ delta.status = "RENAMED"
  /\ delta.old \notin DOMAIN owners
  /\ delta.new \notin DOMAIN owners
  /\ ~first

\* C3: the creation time of a path is the time of the commit that Added it:
\* an Added stores the commit's time, a Renamed carries the old path's time to
\* the new path, and no record changes the time of a path that stays live.
C3_CreationFrozen ==
  [][ /\ ~DeltaDone => created_on' = created_on
      /\ DeltaDone =>
           /\ \A p \in DOMAIN created_on \cap DOMAIN created_on' :
                created_on'[p] = created_on[p]
           /\ \A p \in DOMAIN created_on' \ DOMAIN created_on :
                /\ p = delta'.new
                /\ delta'.status \in {"ADDED", "RENAMED"}
                /\ delta'.status = "ADDED" => created_on'[p] = commit.time
                /\ delta'.status = "RENAMED" => created_on'[p] = created_on[delta'.old]
           /\ delta'.status \in {"ADDED", "MODIFIED", "RENAMED"}
                => delta'.new \in DOMAIN created_on' ]_vars

\* C3 witness: a path Added in the first commit and Modified by alice has been
\* Renamed by a later commit, and still has the creation time of its Added.
C3_Witness ==
  /\ pc = "deltas"
  /\ delta.status = "RENAMED"
  /\ delta.new \in DOMAIN created_on
  /\ owners[delta.new] = {VIJAY_NAME, DAVID_NAME, <<"A","l","i","c","e">>}
  /\ created_on[delta.new] < commit.time
  /\ last_vijay_date = created_on[delta.new]

ALICE_NAME == <<"A","l","i","c","e">>

\* The distinguished identity set: the distinguished contributor and the
\* co-attributed second name.
DistinguishedSet == {VIJAY_NAME, DAVID_NAME}

\* The identity a record of the current commit is attributed to.
RecordIdentity ==
  IF first THEN DistinguishedSet ELSE transform_name(commit.author)

\* What a Modified of path p by author a would make of the engine state st.
ModifiedBy(st, p, a, t) ==
  ProcessDelta(st, FALSE, [author |-> a, time |-> t],
               [status |-> "MODIFIED", old |-> p, new |-> p])

\* C4: an Added sets the owners of its path to the record's identity and a
\* Modified replaces them by their union with the record's identity, so the
\* set only grows; two Modified of a live path give the same owners in either
\* order, and a repeated Modified gives the owners of a single one.
C4_OwnersUnion ==
  /\ [][ DeltaDone =>
           /\ delta'.status = "ADDED" => owners'[delta'.new] = RecordIdentity
           /\ delta'.status = "MODIFIED" =>
                /\ owners'[delta'.new] = owners[delta'.new] \cup RecordIdentity
                /\ owners[delta'.new] \subseteq owners'[delta'.new] ]_vars
  /\ []((pc = "deltas" /\ ~first) =>
          \A p \in DOMAIN owners : \A a1, a2 \in AuthorNames :
            LET t   == commit.time
                m1  == ModifiedBy(Engine, p, a1, t)
                m12 == ModifiedBy(m1, p, a2, t)
                m21 == ModifiedBy(ModifiedBy(Engine, p, a2, t), p, a1, t)
                m11 == ModifiedBy(m1, p, a1, t)
            IN  /\ m12.err = NoError
                /\ m12.owners = m21.owners
                /\ m11.owners = m1.owners
                /\ m12.owners[p] = owners[p] \cup Identity[a1] \cup Identity[a2])

\* C4 witness: alice has Modified a path Added in the first commit; its owners
\* are the first commit's identity and alice's.
C4_Witness ==
  /\ pc = "deltas"
  /\ delta.status = "MODIFIED"
  /\ commit.author = <<"a","l","i","c","e">>
  /\ owners[delta.new] = {VIJAY_NAME, DAVID_NAME, ALICE_NAME}

\* C5: a Renamed old -> new that does not raise leaves under new the owners and
\* the creation time old had, removes old from both maps, and the label of new
\* afterwards is the label old had before.
C5_RenamePreserves ==
  [][ (DeltaDone /\ delta'.status = "RENAMED") =>
        /\ delta'.old # delta'.new
        /\ owners'[delta'.new] = owners[delta'.old]
        /\ created_on'[delta'.new] = created_on[delta'.old]
        /\ delta'.old \notin DOMAIN owners'
        /\ delta'.old \notin DOMAIN created_on'
        /\ (last_vijay_date # PyNone /\ last_vijay_date' # PyNone) =>
             Classify(owners'[delta'.new], created_on'[delta'.new], last_vijay_date')
               = Classify(owners[delta'.old], created_on[delta'.old], last_vijay_date) ]_vars

\* C5 witness: a path labelled Inherited has been renamed.
C5_Witness ==
  /\ pc = "deltas"
  /\ delta.status = "RENAMED"
  /\ delta.new \in DOMAIN owners
  /\ last_vijay_date # PyNone
  /\ Classify(owners[delta.new], created_on[delta.new], last_vijay_date) = "Inherited"

\* C6: a Renamed or a Deleted processed after the first commit changes neither
\* all_contributors nor last_vijay_date, whether or not it raises.
C6_RenameDeleteFrame ==
  [][ (DeltaStep /\ ~first /\ delta'.status \in {"RENAMED", "DELETED"}) =>
        /\ all_contributors' = all_contributors
        /\ last_vijay_date' = last_vijay_date ]_vars

\* C6 witness: a commit of the distinguished contributor, at another time than
\* the last one stored, has renamed a path that he does not own.
C6_Witness ==
  /\ pc = "deltas" /\ ~first
  /\ delta.status = "RENAMED"
  /\ VIJAY_NAME \in transform_name(commit.author)
  /\ commit.time # last_vijay_date
  /\ VIJAY_NAME \notin all_contributors

\* C7: a record of the first commit is attributed to the distinguished
\* identity whatever the commit's author, a record of a later commit to the
\* identity of the commit's author; only the first commit of the walk is
\* processed with first set.
C7_Bootstrap ==
  [][ /\ (DeltaDone /\ delta'.status \in {"ADDED", "MODIFIED"}) =>
           LET id == IF first THEN DistinguishedSet ELSE transform_name(commit.author)
           IN  /\ id \subseteq owners'[delta'.new]
               /\ delta'.status = "ADDED" => owners'[delta'.new] = id
               /\ all_contributors' = all_contributors \cup id
               /\ VIJAY_NAME \in id => last_vijay_date' = commit.time
               /\ VIJAY_NAME \notin id => last_vijay_date' = last_vijay_date
      /\ (DeltaDone /\ first) => owners'[delta'.new] = DistinguishedSet
      /\ (pc = "walk" /\ pc' = "deltas") => (first' <=> commit = NoCommit) ]_vars

\* C7 witness: the first commit, authored by alice, has Added a path that is
\* owned by the distinguished identity only.
C7_Witness ==
  /\ pc = "deltas" /\ first
  /\ delta.status = "ADDED"
  /\ commit.author = <<"a","l","i","c","e">>
  /\ owners[delta.new] = DistinguishedSet
  /\ all_contributors = DistinguishedSet
  /\ last_vijay_date = commit.time

\* C8 (as claimed): once set, last_vijay_date never decreases.
C8_Monotonic ==
  [][ last_vijay_date # PyNone => last_vijay_date' >= last_vijay_date ]_vars

KnownNames == {VIJAY_NAME, DAVID_NAME, ALICE_NAME}

\* The label of the first condition that holds, in the order Complete,
\* Partial, Inherited, None.
FirstMatch(file_owners, added_date, last_date) ==
  LET conds  == << file_owners = DistinguishedSet,
                   file_owners \cap DistinguishedSet # {},
                   added_date < last_date,
                   TRUE >>
      labels == << "Complete", "Partial", "Inherited", "None" >>
      i      == CHOOSE k \in 1..4 : conds[k] /\ \A j \in 1..(k-1) : ~conds[j]
  IN  labels[i]

\* The lines of the report that describe a file (the first line is the header).
FileLines == 2..Len(output)

\* For every owner set, creation time and last date the classification is the
\* first matching label.
ClassifyIsFirstMatch ==
  \A o \in SUBSET KnownNames : \A c, l \in Times :
    Classify(o, c, l) = FirstMatch(o, c, l)

\* C9: for every owner set, creation time and last date the classification is
\* the first matching label, and every line of the report carries the first
\* matching label of its file.
C9_FirstMatch ==
  /\ ClassifyIsFirstMatch
  /\ \A i \in FileLines :
       output[i].ownership =
         FirstMatch(owners[output[i].name], created_on[output[i].name], last_vijay_date)

\* C9 witness: a finished report with a Partial and an Inherited file.
C9_Witness ==
  /\ pc = "done"
  /\ Len(output) = 3
  /\ {output[2].ownership, output[3].ownership} = {"Partial", "Inherited"}

\* C10 (as claimed): a file that no commit attributed to the distinguished
\* contributor Added or Modified is reported Inherited when created before
\* last_vijay_date, None when created after it, and never Complete or Partial.
C10_Untouched ==
  \A i \in FileLines :
    LET p == output[i].name
    IN  "distinguished" \notin history[p] =>
          /\ output[i].ownership \notin {"Complete", "Partial"}
          /\ created_on[p] < last_vijay_date => output[i].ownership = "Inherited"
          /\ created_on[p] > last_vijay_date => output[i].ownership = "None"

\* C10 (amended): the same of a file that no commit whose identity holds a name
\* of the distinguished identity set Added or Modified.
C10_UntouchedByPair ==
  \A i \in FileLines :
    LET p == output[i].name
    IN  history[p] \cap {"distinguished", "coattributed"} = {} =>
          /\ output[i].ownership \notin {"Complete", "Partial"}
          /\ created_on[p] < last_vijay_date => output[i].ownership = "Inherited"
          /\ created_on[p] > last_vijay_date => output[i].ownership = "None"

\* C10 witness: a finished report of a file that only alice touched, created
\* before last_vijay_date and reported Inherited, and of a file that only the
\* co-attributed contributor touched under his own name, reported Partial.
C10_Witness ==
  /\ pc = "done"
  /\ Len(output) = 3
  /\ history[output[2].name] = {"other"}
  /\ created_on[output[2].name] < last_vijay_date
  /\ output[2].ownership = "Inherited"
  /\ history[output[3].name] = {"coattributed"}
  /\ output[3].ownership = "Partial"

Handled == {"ADDED", "MODIFIED", "RENAMED", "DELETED"}

\* C11 (as claimed): a change record of any commit whose kind is none of
\* Added, Modified, Renamed, Deleted ends the walk with the error that names
\* the kind.
C11_UnhandledNamed ==
  [][ (DeltaStep /\ delta'.status \notin Handled) =>
        /\ pc' = "failed"
        /\ err'.type = "RuntimeError"
        /\ err'.msg = <<"You haven't handled: ", get_git_type(delta'.status)>> ]_vars

\* C12: last_vijay_date leaves PyNone only on an Added or a Modified whose
\* identity holds the distinguished contributor; when the walk ends with
\* last_vijay_date still PyNone the run fails with nothing printed, and nothing
\* is done after the failure.
C12_NeverFound ==
  [][ /\ pc # "failed"
      /\ (last_vijay_date = PyNone /\ last_vijay_date' # PyNone) =>
           /\ DeltaStep
           /\ delta'.status \in {"ADDED", "MODIFIED"}
           /\ VIJAY_NAME \in RecordIdentity
      /\ (pc = "walk" /\ pc' \notin {"walk", "deltas"}) =>
           IF last_vijay_date = PyNone
           THEN pc' = "failed" /\ err'.type = "AttributeError" /\ output' = <<>>
           ELSE pc' # "failed" /\ Len(output') = 1 ]_vars

\* C12 witness: a walk that left live paths, none of them through a commit of
\* the distinguished contributor, has ended in the failure, with no report.
C12_Witness ==
  /\ pc = "failed"
  /\ err.type = "AttributeError"
  /\ last_vijay_date = PyNone
  /\ VIJAY_NAME \notin all_contributors
  /\ DOMAIN owners = {"a", "b"}
  /\ output = <<>>

\* C13: a record that does not raise leaves live the path of an Added or a
\* Modified and the new path of a Renamed, leaves not live the path of a
\* Deleted and the old path of a Renamed, and changes the liveness of no other
\* path; nothing else changes the live paths. The report has one line for each
\* path that is live at the end of the walk and none for any other path.
C13_LiveExactly ==
  /\ [][ /\ DeltaDone =>
              /\ delta'.status \in {"ADDED", "MODIFIED", "RENAMED"}
                   => delta'.new \in DOMAIN owners'
              /\ delta'.status \in {"RENAMED", "DELETED"}
                   => delta'.old \notin DOMAIN owners'
              /\ \A p \in Paths \ {delta'.old, delta'.new} :
                   (p \in DOMAIN owners') <=> (p \in DOMAIN owners)
         /\ ~DeltaDone => DOMAIN owners' = DOMAIN owners ]_vars
  /\ [](/\ \A i \in FileLines : output[i].name \in DOMAIN owners
        /\ \A i, j \in FileLines : output[i].name = output[j].name => i = j
        /\ pc = "done" => {output[i].name : i \in FileLines} = DOMAIN owners)

\* C13 witness: a finished report of a walk whose last record Deleted a path:
\* the other path has its line, the deleted path has none.
C13_Witness ==
  /\ pc = "done"
  /\ delta.status = "DELETED"
  /\ delta.old \notin DOMAIN owners
  /\ Len(output) = 2
  /\ output[2].name # delta.old

\* C14: no step removes a name from all_contributors.
C14_NeverShrinks ==
  [][ all_contributors \subseteq all_contributors' ]_vars

\* C14 witness: a Deleted has removed the last path that alice owned, and
\* alice is still in all_contributors.
C14_Witness ==
  /\ pc = "deltas"
  /\ delta.status = "DELETED"
  /\ DOMAIN owners # {}
  /\ ALICE_NAME \in all_contributors
  /\ \A p \in DOMAIN owners : ALICE_NAME \notin owners[p]

\* Every delta the history provider can report.
AllDeltas == UNION {DeltasOf(s) : s \in Statuses}

\* The fatal conditions a change record d meets in the current state.
FatalConditions(d) ==
  {c \in {"added-live", "modified-not-live", "renamed-onto-live",
          "removed-not-live", "first-not-added", "unhandled"} :
     \/ c = "added-live" /\ d.status = "ADDED" /\ d.new \in DOMAIN owners
     \/ c = "modified-not-live" /\ d.status = "MODIFIED" /\ d.new \notin DOMAIN owners
     \/ c = "renamed-onto-live" /\ d.status = "RENAMED" /\ d.new \in DOMAIN owners
     \/ c = "removed-not-live" /\ d.status \in {"RENAMED", "DELETED"}
                               /\ d.old \notin DOMAIN owners
     \/ c = "first-not-added" /\ first /\ d.status # "ADDED"
     \/ c = "unhandled" /\ d.status \notin Handled}

\* C15 (as claimed): two change records that meet different fatal conditions
\* raise errors of different kinds, and none of them raises the kind of the
\* error of an unset last_vijay_date.
C15_Distinguishable ==
  pc = "deltas" =>
    \A d1, d2 \in AllDeltas :
      LET e1 == ProcessDelta(Engine, first, commit, d1).err
          e2 == ProcessDelta(Engine, first, commit, d2).err
      IN  /\ FatalConditions(d1) # {} => (e1 # NoError /\ e1.type # "AttributeError")
          /\ (FatalConditions(d1) # {} /\ FatalConditions(d2) # {}
                /\ FatalConditions(d1) \cap FatalConditions(d2) = {})
               => e1.type # e2.type

\* The change records of a reordering question: the one-path records on the
\* walked paths, and the renames of a walked path to or from one more path, so
\* that a rename has a record on a disjoint path beside it.
OtherPath == "c"

ReorderDeltas ==
  UNION {DeltasOf(s) : s \in {"ADDED", "MODIFIED", "DELETED", "TYPECHANGE"}}
    \cup {[status |-> "RENAMED", old |-> p, new |-> OtherPath] : p \in Paths}
    \cup {[status |-> "RENAMED", old |-> OtherPath, new |-> p] : p \in Paths}

\* An order of the paths, to take each pair of records once.
PathBefore(p, q) ==
  \/ p = "a" /\ q # "a"
  \/ p = "b" /\ q = OtherPath

TouchedPaths(d) == {d.old, d.new}

\* lines 108-186 for two successive records of the current commit: the second
\* one is not reached when the first one raises.
TwoDeltas(st, d1, d2) ==
  LET st1 == ProcessDelta(st, first, commit, d1)
  IN  IF st1.err # NoError THEN st1 ELSE ProcessDelta(st1, first, commit, d2)

\* The outcome of a commit: failure, or success with the four results.
Outcome(st) ==
  IF st.err # NoError
  THEN [ok |-> FALSE]
  ELSE [ok |-> TRUE, owners |-> st.owners, created_on |-> st.created_on,
        all_contributors |-> st.all_contributors,
        last_vijay_date |-> st.last_vijay_date]

\* C16: two records of one commit on disjoint paths give the same outcome in
\* either order: both orders fail or both succeed, and on success owners,
\* created_on, all_contributors and last_vijay_date are the same. (Every
\* reordering of the records of a commit is a chain of such exchanges.)
C16_OrderIndependent ==
  [](pc = "deltas" =>
       \A d1, d2 \in ReorderDeltas :
         (PathBefore(d1.old, d2.old)
            /\ TouchedPaths(d1) \cap TouchedPaths(d2) = {}) =>
           Outcome(TwoDeltas(Engine, d1, d2)) = Outcome(TwoDeltas(Engine, d2, d1)))

\* C16 witness: a commit in which a Renamed and an Added on disjoint paths both
\* succeed in either order, with different owners, and leave the same state
\* but for the insertion order of the paths.
C16_Witness ==
  /\ pc = "deltas"
  /\ \E d1, d2 \in ReorderDeltas :
       /\ d1.status = "RENAMED" /\ d2.status = "ADDED"
       /\ TouchedPaths(d1) \cap TouchedPaths(d2) = {}
       /\ TwoDeltas(Engine, d1, d2).err = NoError
       /\ TwoDeltas(Engine, d2, d1).err = NoError
       /\ TwoDeltas(Engine, d1, d2).owners[d2.new] # owners[d1.old]
       /\ TwoDeltas(Engine, d1, d2).key_order # TwoDeltas(Engine, d2, d1).key_order

\* C17 (as claimed): a commit with a Renamed record whose destination is the
\* path of a Deleted record of the same commit fails, whichever of the two
\* records is processed first.
C17_RenameOntoDeleted ==
  pc = "deltas" =>
    \A r \in DeltasOf("RENAMED"), d \in DeltasOf("DELETED") :
      r.new = d.old =>
        /\ TwoDeltas(Engine, r, d).err # NoError
        /\ TwoDeltas(Engine, d, r).err # NoError

\* C18: in every state of the walk the owners of every live path are among
\* all_contributors.
C18_OwnersRecorded ==
  \A p \in DOMAIN owners : owners[p] \subseteq all_contributors

\* C18 witness: a Renamed has just given a path the owners of its old name,
\* three names of two commits, and all of them are in all_contributors.
C18_Witness ==
  /\ pc = "deltas"
  /\ delta.status = "RENAMED"
  /\ delta.new \in DOMAIN owners
  /\ owners[delta.new] = DistinguishedSet \cup {ALICE_NAME}
  /\ owners[delta.new] \subseteq all_contributors

\* C19: a change record that makes the walk fail leaves owners and created_on
\* as they were before the record.
C19_FailureKeepsMaps ==
  [][ (DeltaStep /\ err' # NoError) =>
        /\ owners' = owners
        /\ created_on' = created_on ]_vars

\* C19 witness: a Renamed onto a live path with other owners has failed, and
\* both paths are still live with their own owners.
C19_Witness ==
  /\ pc = "failed"
  /\ delta.status = "RENAMED"
  /\ err.line = 168
  /\ {delta.old, delta.new} \subseteq DOMAIN owners
  /\ owners[delta.old] # owners[delta.new]
  /\ created_on[delta.old] # created_on[delta.new]

\* C20: an Added or Modified of path p leaves the owners and created_on
\* entries of every other live path as they were; no two live paths hold the
\* same set object, so the in-place union of line 154 reaches one path only.
C20_OtherPathsKept ==
  /\ [][ (DeltaDone /\ delta'.status \in {"ADDED", "MODIFIED"}) =>
           \A q \in DOMAIN owners \ {delta'.new} :
             /\ q \in DOMAIN owners'
             /\ owners'[q] = owners[q]
             /\ created_on'[q] = created_on[q] ]_vars
  /\ [](alias = {{p} : p \in DOMAIN owners})

\* C20 witness: alice has Modified one of two paths that had the same owners
\* and the same creation time; the other path still has the owners of the
\* first commit.
C20_Witness ==
  /\ pc = "deltas"
  /\ delta.status = "MODIFIED"
  /\ DOMAIN owners = Paths
  /\ \E q \in Paths \ {delta.new} :
       /\ owners[q] = DistinguishedSet
       /\ owners[delta.new] = DistinguishedSet \cup {ALICE_NAME}
       /\ created_on[q] = created_on[delta.new]
       /\ key_order = <<delta.new, q>>

====
